---- MODULE Spec2Model ----
(***************************************************************************)
(* Model of practical_project_4.py: Record, DefaultRecordFormatter,        *)
(* BusinessLayer (the in-memory record repository with its CSV load/save)  *)
(* and PresentationLayer (the menu loop).                                  *)
(*                                                                         *)
(* Representation of Python strings: a string is a sequence of chunks.     *)
(* A chunk is a TLA+ string holding either one character or a run of       *)
(* ordinary characters (letters, digits, spaces, dots) that the code never *)
(* looks inside.  The characters the csv module, int() and str.lower()     *)
(* look at (comma, double quote, CR, LF, digits, sign, blank, the letters  *)
(* of "yes") are always chunks of their own where those functions read     *)
(* them.  Python's None is the distinguished value None below.             *)
(***************************************************************************)
EXTENDS Integers, Sequences, FiniteSets, TLC

VARIABLES
    records,    \* BusinessLayer.records
    filename,   \* BusinessLayer.filename
    fs,         \* the files on disk: file name -> text, or NoFile
    out,        \* the lines printed by the last operation
    pc,         \* the process: "menu" (loop waiting), "exit", "crash"
    last,       \* the last operation, its inputs and the records before it
    saved       \* per file: the sequence a completed save wrote last, or Unknown

vars == <<records, filename, fs, out, pc, last, saved>>

(***************************************************************************)
(* Bounds of the model.                                                    *)
(***************************************************************************)
MaxRecords == 2

(***************************************************************************)
(* Strings and Python values.                                              *)
(***************************************************************************)
None == <<"<None>">>

COMMA == ","
QUOTE == "\""
CR == "\r"
LF == "\n"
EOL == "<EOL>"

\* str(v) as an f-string applies it to a field.
Str(v) == IF v = None THEN <<"None">> ELSE v

Digit(d) ==
    CASE d = 0 -> "0" [] d = 1 -> "1" [] d = 2 -> "2" [] d = 3 -> "3"
      [] d = 4 -> "4" [] d = 5 -> "5" [] d = 6 -> "6" [] d = 7 -> "7"
      [] d = 8 -> "8" [] d = 9 -> "9"

RECURSIVE IntStr(_)
IntStr(n) == IF n < 10 THEN <<Digit(n)>> ELSE IntStr(n \div 10) \o <<Digit(n % 10)>>

(***************************************************************************)
(* Record                                                                  *)
(***************************************************************************)
Record(source, latin_name, english_name, french_name, year, month, number_otoliths) ==
    [source |-> source, latin_name |-> latin_name, english_name |-> english_name,
     french_name |-> french_name, year |-> year, month |-> month,
     number_otoliths |-> number_otoliths]

(***************************************************************************)
(* DefaultRecordFormatter.format_record                                    *)
(***************************************************************************)
\* A variant with year and month in each other's place (sensitivity of C10).
format_record_swapped(record) ==
    <<"Source: ">> \o Str(record.source)
        \o <<", Latin Name: ">> \o Str(record.latin_name)
        \o <<", English Name: ">> \o Str(record.english_name)
        \o <<", French Name: ">> \o Str(record.french_name)
        \o <<", Year: ">> \o Str(record.month)
        \o <<", Month: ">> \o Str(record.year)
        \o <<", Number of Otoliths: ">> \o Str(record.number_otoliths)

format_record(record) ==
    <<"Source: ">> \o Str(record.source)
        \o <<", Latin Name: ">> \o Str(record.latin_name)
        \o <<", English Name: ">> \o Str(record.english_name)
        \o <<", French Name: ">> \o Str(record.french_name)
        \o <<", Year: ">> \o Str(record.year)
        \o <<", Month: ">> \o Str(record.month)
        \o <<", Number of Otoliths: ">> \o Str(record.number_otoliths)

(***************************************************************************)
(* csv.writer with the default (excel) dialect, as save_records uses it.   *)
(***************************************************************************)
CsvSpecial == {COMMA, QUOTE, CR, LF}

\* None is written as the empty string.
CsvValue(v) == IF v = None THEN <<>> ELSE v

RECURSIVE DoubleQuotes(_)
DoubleQuotes(s) ==
    IF s = <<>> THEN <<>>
    ELSE (IF Head(s) = QUOTE THEN <<QUOTE, QUOTE>> ELSE <<Head(s)>>)
             \o DoubleQuotes(Tail(s))

\* QUOTE_MINIMAL: a field is quoted when it holds the delimiter, the quote
\* character or a character of the line terminator; a lone empty field is
\* quoted too.
WriteField(v, num_fields) ==
    LET s == CsvValue(v)
        quoted == (\E i \in 1..Len(s) : s[i] \in CsvSpecial)
                      \/ (s = <<>> /\ num_fields = 1)
    IN  IF quoted THEN <<QUOTE>> \o DoubleQuotes(s) \o <<QUOTE>> ELSE s

RECURSIVE JoinFields(_, _)
JoinFields(fields, n) ==
    IF fields = <<>> THEN <<>>
    ELSE WriteField(Head(fields), n)
             \o (IF Len(fields) > 1 THEN <<COMMA>> ELSE <<>>)
             \o JoinFields(Tail(fields), n)

writerow(fields) == JoinFields(fields, Len(fields)) \o <<CR, LF>>

(***************************************************************************)
(* Text-mode reading, open(filename, 'r'): universal newlines translate    *)
(* "\r\n" and a lone "\r" to "\n".                                         *)
(***************************************************************************)
RECURSIVE UniversalNewlines(_)
UniversalNewlines(s) ==
    IF s = <<>> THEN <<>>
    ELSE IF Head(s) = CR
         THEN IF Len(s) > 1 /\ s[2] = LF
              THEN <<LF>> \o UniversalNewlines(Tail(Tail(s)))
              ELSE <<LF>> \o UniversalNewlines(Tail(s))
         ELSE <<Head(s)>> \o UniversalNewlines(Tail(s))

(***************************************************************************)
(* csv.reader: the parser's state machine (default dialect, not strict).   *)
(* A parser state is [state, field, fields, rows, error].                  *)
(***************************************************************************)
ParserReset(rows) ==
    [state |-> "START_RECORD", field |-> <<>>, fields |-> <<>>, rows |-> rows,
     error |-> FALSE]

SaveField(ps, next) ==
    [ps EXCEPT !.fields = Append(ps.fields, ps.field), !.field = <<>>, !.state = next]

AddChar(ps, c, next) ==
    [ps EXCEPT !.field = Append(ps.field, c), !.state = next]

AfterNewline(c) == IF c = EOL THEN "START_RECORD" ELSE "EAT_CRNL"

StartField(ps, c) ==
    IF c \in {LF, CR, EOL} THEN SaveField(ps, AfterNewline(c))
    ELSE IF c = QUOTE THEN [ps EXCEPT !.state = "IN_QUOTED_FIELD"]
    ELSE IF c = COMMA THEN SaveField(ps, "START_FIELD")
    ELSE AddChar(ps, c, "IN_FIELD")

ProcessChar(ps, c) ==
    CASE ps.state = "START_RECORD" ->
            IF c = EOL THEN ps
            ELSE IF c \in {LF, CR} THEN [ps EXCEPT !.state = "EAT_CRNL"]
            ELSE StartField(ps, c)
      [] ps.state = "START_FIELD" -> StartField(ps, c)
      [] ps.state = "IN_FIELD" ->
            IF c \in {LF, CR, EOL} THEN SaveField(ps, AfterNewline(c))
            ELSE IF c = COMMA THEN SaveField(ps, "START_FIELD")
            ELSE AddChar(ps, c, "IN_FIELD")
      [] ps.state = "IN_QUOTED_FIELD" ->
            IF c = EOL THEN ps
            ELSE IF c = QUOTE THEN [ps EXCEPT !.state = "QUOTE_IN_QUOTED_FIELD"]
            ELSE AddChar(ps, c, "IN_QUOTED_FIELD")
      [] ps.state = "QUOTE_IN_QUOTED_FIELD" ->
            IF c = QUOTE THEN AddChar(ps, c, "IN_QUOTED_FIELD")
            ELSE IF c = COMMA THEN SaveField(ps, "START_FIELD")
            ELSE IF c \in {LF, CR, EOL} THEN SaveField(ps, AfterNewline(c))
            ELSE AddChar(ps, c, "IN_FIELD")
      [] ps.state = "EAT_CRNL" ->
            IF c \in {LF, CR} THEN ps
            ELSE IF c = EOL THEN [ps EXCEPT !.state = "START_RECORD"]
            ELSE [ps EXCEPT !.error = TRUE]

\* The end of a line hands the row to the caller when the parser is back in
\* START_RECORD (Reader.__next__ loops while it is not).
EndOfLine(ps) ==
    LET q == ProcessChar(ps, EOL)
    IN  IF q.state = "START_RECORD" /\ ~q.error
        THEN ParserReset(Append(q.rows, q.fields))
        ELSE q

\* The file iterator yields lines that end at "\n"; each character of a line
\* is processed, then the end of the line.
RECURSIVE ReadChars(_, _, _)
ReadChars(ps, s, i) ==
    IF ps.error THEN ps
    ELSE IF i > Len(s)
    THEN \* the iterator is exhausted
         IF ps.field # <<>> \/ ps.state = "IN_QUOTED_FIELD"
         THEN ParserReset(Append(ps.rows, SaveField(ps, "START_RECORD").fields))
         ELSE ps
    ELSE LET q == ProcessChar(ps, s[i])
         IN  ReadChars(IF (s[i] = LF \/ i = Len(s)) /\ ~q.error THEN EndOfLine(q) ELSE q,
                       s, i + 1)

\* All rows csv.reader yields for a text, and whether it raised csv.Error.
reader(text) == ReadChars(ParserReset(<<>>), text, 1)

(***************************************************************************)
(* csv.DictReader: the first row is the header; empty rows are skipped;    *)
(* row[key] is the value under the last header cell named key, None when   *)
(* the row is too short, and a KeyError when no header cell has that name. *)
(***************************************************************************)
RECURSIVE NonEmptyRows(_)
NonEmptyRows(rows) ==
    IF rows = <<>> THEN <<>>
    ELSE (IF Head(rows) = <<>> THEN <<>> ELSE <<Head(rows)>>) \o NonEmptyRows(Tail(rows))

DictReader(text) ==
    LET rd == reader(text)
    IN  [fieldnames |-> IF rd.rows = <<>> THEN <<>> ELSE Head(rd.rows),
         rows |-> IF rd.rows = <<>> THEN <<>> ELSE NonEmptyRows(Tail(rd.rows)),
         error |-> rd.error]

HasKey(fieldnames, key) == \E p \in 1..Len(fieldnames) : fieldnames[p] = key

RowGet(fieldnames, row, key) ==
    LET p == CHOOSE q \in 1..Len(fieldnames) :
                 /\ fieldnames[q] = key
                 /\ \A q2 \in 1..Len(fieldnames) : fieldnames[q2] = key => q2 <= q
    IN  IF p <= Len(row) THEN row[p] ELSE None

(***************************************************************************)
(* The files on disk.                                                      *)
(***************************************************************************)
NoFile == <<"<no file>">>

ColumnKeys ==
    << <<"source">>, <<"latin.name_nom.latin">>, <<"english.name_nom.anglais">>,
       <<"french.name_nom.français">>, <<"year_année">>, <<"month_mois">>,
       <<"number.otoliths_nombre.otolithes">> >>

RecordFields(record) ==
    <<record.source, record.latin_name, record.english_name, record.french_name,
      record.year, record.month, record.number_otoliths>>

(***************************************************************************)
(* BusinessLayer.load_records.  failAt = 0: reading raises nothing;        *)
(* failAt = k > 0: fetching the k-th data row raises an I/O or decoding    *)
(* error.  The result is the record list and the lines printed.            *)
(***************************************************************************)
MissingKeys(fieldnames) ==
    {k \in 1..Len(ColumnKeys) : ~HasKey(fieldnames, ColumnKeys[k])}

FirstMissingKey(fieldnames) ==
    ColumnKeys[CHOOSE k \in MissingKeys(fieldnames) :
                   \A k2 \in MissingKeys(fieldnames) : k <= k2]

RowRecord(fieldnames, row) ==
    Record(RowGet(fieldnames, row, ColumnKeys[1]),
           RowGet(fieldnames, row, ColumnKeys[2]),
           RowGet(fieldnames, row, ColumnKeys[3]),
           RowGet(fieldnames, row, ColumnKeys[4]),
           RowGet(fieldnames, row, ColumnKeys[5]),
           RowGet(fieldnames, row, ColumnKeys[6]),
           RowGet(fieldnames, row, ColumnKeys[7]))

ErrorLine(detail) == << <<"An error occurred: ">> \o detail >>

\* A variant that empties the list when reading fails (sensitivity of C6).
RECURSIVE LoadRows_drop(_, _, _, _)
LoadRows_drop(recs, dr, i, failAt) ==
    IF failAt = i THEN [records |-> <<>>, out |-> ErrorLine(<<"<I/O error>">>), ok |-> FALSE]
    ELSE IF i > Len(dr.rows)
    THEN IF dr.error
         THEN [records |-> <<>>, out |-> ErrorLine(<<"<csv.Error>">>), ok |-> FALSE]
         ELSE [records |-> recs, out |-> <<>>, ok |-> TRUE]
    ELSE IF MissingKeys(dr.fieldnames) # {}
    THEN [records |-> <<>>,
          out |-> ErrorLine(<<"'">> \o FirstMissingKey(dr.fieldnames) \o <<"'">>),
          ok |-> FALSE]
    ELSE LoadRows_drop(Append(recs, RowRecord(dr.fieldnames, dr.rows[i])), dr, i + 1,
                       failAt)

RECURSIVE LoadRows(_, _, _, _)
LoadRows(recs, dr, i, failAt) ==
    IF failAt = i THEN [records |-> recs, out |-> ErrorLine(<<"<I/O error>">>), ok |-> FALSE]
    ELSE IF i > Len(dr.rows)
    THEN IF dr.error
         THEN [records |-> recs, out |-> ErrorLine(<<"<csv.Error>">>), ok |-> FALSE]
         ELSE [records |-> recs, out |-> <<>>, ok |-> TRUE]
    ELSE IF MissingKeys(dr.fieldnames) # {}
    THEN [records |-> recs,
          out |-> ErrorLine(<<"'">> \o FirstMissingKey(dr.fieldnames) \o <<"'">>),
          ok |-> FALSE]
    ELSE LoadRows(Append(recs, RowRecord(dr.fieldnames, dr.rows[i])), dr, i + 1, failAt)

\* open(self.filename, 'r', encoding='utf-8') and csv.DictReader(file): the
\* file read in text mode and parsed, or FileNotFoundError.
open(file) ==
    IF file = NoFile THEN [found |-> FALSE, dr |-> DictReader(<<>>)]
    ELSE [found |-> TRUE, dr |-> DictReader(UniversalNewlines(file))]

\* A variant that empties the list when the file is missing (sensitivity of C5).
load_records_reset(recs, opened, failAt) ==
    IF ~opened.found
    THEN [records |-> <<>>, out |-> << <<"Error: File not found.">> >>, ok |-> FALSE]
    ELSE LoadRows(recs, opened.dr, 1, failAt)

load_records(recs, opened, failAt) ==
    IF ~opened.found
    THEN [records |-> recs, out |-> << <<"Error: File not found.">> >>, ok |-> FALSE]
    ELSE LoadRows(recs, opened.dr, 1, failAt)

\* The points at which reading an opened file can raise: none (0), or at
\* the fetch of a data row, or at the fetch that finds the end of the file.
FailPoints(opened) ==
    IF opened.found THEN 0..(Len(opened.dr.rows) + 1) ELSE {0}

(***************************************************************************)
(* BusinessLayer.save_records.  failAt = 0: nothing raises; failAt = -1:   *)
(* open() raises and the file is untouched; failAt = k > 0: writing the    *)
(* k-th line raises after open() truncated the file (line 1 is the header).*)
(***************************************************************************)
RECURSIVE WriteRows(_)
WriteRows(recs) ==
    IF recs = <<>> THEN <<>>
    ELSE writerow(RecordFields(Head(recs))) \o WriteRows(Tail(recs))

SaveErrorLine == << <<"An error occurred while saving records: ", "<I/O error>">> >>

save_records(recs, file, failAt) ==
    IF failAt = -1 THEN [file |-> file, out |-> SaveErrorLine, ok |-> FALSE]
    ELSE IF failAt = 0
    THEN [file |-> writerow(ColumnKeys) \o WriteRows(recs),
          out |-> << <<"Records saved successfully">> >>, ok |-> TRUE]
    ELSE [file |-> IF failAt = 1 THEN <<>>
                   ELSE writerow(ColumnKeys)
                            \o WriteRows(SubSeq(recs, 1, failAt - 2)),
          out |-> SaveErrorLine, ok |-> FALSE]

(***************************************************************************)
(* BusinessLayer: display, add, edit, delete.  Each operator gives the     *)
(* record list after the call and the lines it prints.                     *)
(***************************************************************************)
InvalidIndexLine == <<"Invalid record index.">>

display_record(recs, index) ==
    IF 0 <= index /\ index < Len(recs)
    THEN [records |-> recs, out |-> <<format_record(recs[index + 1])>>]
    ELSE [records |-> recs, out |-> <<InvalidIndexLine>>]

RECURSIVE DisplayFrom(_, _)
DisplayFrom(recs, index) ==
    IF index >= Len(recs) THEN <<>>
    ELSE << <<"Record ">> \o IntStr(index + 1) >>
             \o display_record(recs, index).out
             \o (IF (index + 1) % 10 = 0 THEN << <<"Program by Ben Nguyen">> >> ELSE <<>>)
             \o DisplayFrom(recs, index + 1)

display_records(recs) == [records |-> recs, out |-> DisplayFrom(recs, 0)]

\* A variant that inserts at the front (sensitivity of C8).
add_record_front(recs, record) ==
    [records |-> <<record>> \o recs, out |-> << <<"Record added successfully.">> >>]

add_record(recs, record) ==
    [records |-> Append(recs, record), out |-> << <<"Record added successfully.">> >>]

\* A variant without the lower bound of the index check: a negative index
\* counts from the end, as Python lists take it (sensitivity of C1).
edit_record_negative(recs, index, new_record) ==
    IF index < Len(recs) /\ 0 - index <= Len(recs)
    THEN [records |-> [recs EXCEPT ![IF index >= 0 THEN index + 1
                                     ELSE Len(recs) + index + 1] = new_record],
          out |-> << <<"Record edited successfully.">> >>]
    ELSE [records |-> recs, out |-> <<InvalidIndexLine>>]

edit_record(recs, index, new_record) ==
    IF 0 <= index /\ index < Len(recs)
    THEN [records |-> [recs EXCEPT ![index + 1] = new_record],
          out |-> << <<"Record edited successfully.">> >>]
    ELSE [records |-> recs, out |-> <<InvalidIndexLine>>]

\* A variant that removes the last record instead (sensitivity of C7).
delete_record_pop(recs, index) ==
    IF 0 <= index /\ index < Len(recs)
    THEN [records |-> SubSeq(recs, 1, Len(recs) - 1),
          out |-> << <<"Record deleted successfully.">> >>]
    ELSE [records |-> recs, out |-> <<InvalidIndexLine>>]

delete_record(recs, index) ==
    IF 0 <= index /\ index < Len(recs)
    THEN [records |-> SubSeq(recs, 1, index) \o SubSeq(recs, index + 2, Len(recs)),
          out |-> << <<"Record deleted successfully.">> >>]
    ELSE [records |-> recs, out |-> <<InvalidIndexLine>>]

(***************************************************************************)
(* BusinessLayer.generate_bar_chart.  plotFails: matplotlib raises.        *)
(***************************************************************************)
AttributeNames ==
    << <<"source">>, <<"latin_name">>, <<"english_name">>, <<"french_name">>,
       <<"year">>, <<"month">>, <<"number_otoliths">> >>

HasAttr(x_column) == \E k \in 1..Len(AttributeNames) : AttributeNames[k] = x_column

LowerChar(c) ==
    CASE c = "Y" -> "y" [] c = "E" -> "e" [] c = "S" -> "s" [] c = "N" -> "n"
      [] c = "O" -> "o" [] OTHER -> c

lower(s) == [i \in 1..Len(s) |-> LowerChar(s[i])]

ChartErrorLine(detail) ==
    << <<"An error occurred while generating the bar chart: ">> \o detail >>

generate_bar_chart(recs, x_column, plotFails) ==
    IF recs # <<>> /\ ~HasAttr(x_column)
    THEN [records |-> recs, out |-> ChartErrorLine(<<"<AttributeError>">>)]
    ELSE IF plotFails
    THEN [records |-> recs, out |-> ChartErrorLine(<<"<plot error>">>)]
    ELSE [records |-> recs, out |-> <<>>]

(***************************************************************************)
(* int(text), as the index prompts apply it: blanks around the number are  *)
(* stripped, one sign is allowed, at least one digit must follow, anything *)
(* else is a ValueError.                                                   *)
(***************************************************************************)
Digits == {"0", "1", "2", "3", "4", "5", "6", "7", "8", "9"}

DigitValue(c) == CHOOSE d \in 0..9 : Digit(d) = c

RECURSIVE LStrip(_)
LStrip(s) == IF s # <<>> /\ Head(s) = " " THEN LStrip(Tail(s)) ELSE s

RECURSIVE RStrip(_)
RStrip(s) ==
    IF s # <<>> /\ s[Len(s)] = " " THEN RStrip(SubSeq(s, 1, Len(s) - 1)) ELSE s

RECURSIVE DigitsValue(_, _)
DigitsValue(s, acc) ==
    IF s = <<>> THEN acc ELSE DigitsValue(Tail(s), 10 * acc + DigitValue(Head(s)))

int(text) ==
    LET t == RStrip(LStrip(text))
        signed == t # <<>> /\ Head(t) \in {"+", "-"}
        body == IF signed THEN Tail(t) ELSE t
        ok == body # <<>> /\ \A i \in 1..Len(body) : body[i] \in Digits
    IN  [ok |-> ok,
         val |-> IF ~ok THEN 0
                 ELSE IF signed /\ Head(t) = "-" THEN 0 - DigitsValue(body, 0)
                 ELSE DigitsValue(body, 0)]

(***************************************************************************)
(* PresentationLayer: the lines every iteration of the loop prints first.  *)
(***************************************************************************)
full_name == "Ben Nguyen"

display_menu ==
    << <<"Menu:">>, <<"1. Reload data from dataset">>, <<"2. Display all records">>,
       <<"3. Add a new record">>, <<"4. Select, display, and edit a record">>,
       <<"5. Delete a record">>, <<"6. Generate vertical bar chart">>, <<"7. Exit">> >>

Banner == << <<"Full Name: ", full_name>> >> \o display_menu

(***************************************************************************)
(* Inputs of the model: the records a user types or a caller passes, the   *)
(* dataset files the program starts on, the texts typed at the prompts.    *)
(***************************************************************************)
SampleRecord ==
    Record(<<"Source">>, <<"Latin Name">>, <<"English Name">>, <<"French Name">>,
           <<"2024">>, <<"March">>, <<"24">>)

QuotedRecord ==
    Record(<<"a", COMMA, "b">>, <<QUOTE, "q", QUOTE>>, <<>>, <<" ">>,
           <<"2020">>, <<>>, <<"7">>)

NewlineRecord ==
    Record(<<"x", CR, "y">>, <<"l", LF, "m">>, <<"Yellowtail">>, <<"Limande">>,
           <<"2021">>, <<"May">>, <<"3">>)

DatasetRecord ==
    Record(<<"DFO">>, <<"Limanda ferruginea">>, <<"Yellowtail Flounder">>,
           <<"Limande">>, <<"2020">>, <<"June">>, <<"12">>)

\* Records typed at the create_record prompts: input() returns one line.
TypedRecords == {SampleRecord, QuotedRecord}

\* Records a caller of add_record / edit_record passes: any strings.
ApiRecords == {QuotedRecord, NewlineRecord}

dataset_filename == "NAFO-4T-Yellowtail-Flounder-otoliths.csv"

FileNames == {dataset_filename, "backup.csv"}

\* The file names save_records is called with.
SaveNames == {"backup.csv"}

RECURSIVE JoinPlain(_)
JoinPlain(cells) ==
    IF cells = <<>> THEN <<>>
    ELSE Head(cells) \o (IF Len(cells) > 1 THEN <<COMMA>> ELSE <<>>) \o JoinPlain(Tail(cells))

TwoRowFile ==
    JoinPlain(ColumnKeys) \o <<CR, LF>>
        \o JoinPlain(RecordFields(DatasetRecord)) \o <<CR, LF>>
        \o JoinPlain(RecordFields(SampleRecord)) \o <<CR, LF>>

\* A data row with two cells only: the other five fields are read as None.
ShortRowFile ==
    JoinPlain(ColumnKeys) \o <<LF>> \o <<"DFO", COMMA, "Limanda ferruginea", LF>>

\* A header without the english name column.
BadHeaderFile ==
    JoinPlain(<<ColumnKeys[1], ColumnKeys[2], ColumnKeys[4], ColumnKeys[5],
                ColumnKeys[6], ColumnKeys[7]>>) \o <<LF>>
        \o JoinPlain(<<DatasetRecord.source, DatasetRecord.latin_name,
                       DatasetRecord.french_name, DatasetRecord.year,
                       DatasetRecord.month, DatasetRecord.number_otoliths>>) \o <<LF>>

InitialFiles == {NoFile, TwoRowFile, ShortRowFile, BadHeaderFile}

IndexTexts ==
    { <<"1">>, <<"+", "2">>, <<" ", "3", " ">>, <<"0">>, <<"-", "1">>, <<"1", "0">>,
      <<"a">>, <<>> }

Answers == { <<"y", "e", "s">>, <<"Y", "E", "S">>, <<"n", "o">> }

Columns == { <<"year">>, <<"Year">>, <<"bogus">> }

OtherChoices == { <<"8">>, <<>>, <<" ", "1">> }

(***************************************************************************)
(* History kept for stating properties: the last operation and its inputs. *)
(***************************************************************************)
NoRecord == Record(None, None, None, None, None, None, None)

Unknown == [known |-> FALSE, recs |-> <<>>]

Last(op, index, rec, typed, answer, failAt, file, ok) ==
    [op |-> op, index |-> index, rec |-> rec, typed |-> typed, answer |-> answer,
     failAt |-> failAt, file |-> file, ok |-> ok, pre |-> records]

(***************************************************************************)
(* BusinessLayer.__init__ and the main block: the state once the program   *)
(* has built its BusinessLayer on the dataset file.                        *)
(***************************************************************************)
Init ==
    \E file \in InitialFiles :
        LET opened == open(file)
        IN  \E failAt \in FailPoints(opened) :
            LET r == load_records(<<>>, opened, failAt)
            IN  /\ Len(r.records) <= MaxRecords
                /\ filename = dataset_filename
                /\ fs = [f \in FileNames |-> IF f = dataset_filename THEN file ELSE NoFile]
                /\ records = r.records
                /\ out = r.out
                /\ pc = "menu"
                /\ last = [op |-> "__init__", index |-> 0, rec |-> NoRecord,
                           typed |-> <<>>, answer |-> <<>>, failAt |-> failAt,
                           file |-> dataset_filename, ok |-> r.ok, pre |-> <<>>]
                /\ saved = [f \in FileNames |-> Unknown]

\* A new BusinessLayer built on a file (a later run, or a test).
Construct(f) ==
    LET opened == open(fs[f])
    IN  \E failAt \in FailPoints(opened) :
        LET r == load_records(<<>>, opened, failAt)
        IN  /\ Len(r.records) <= MaxRecords
            /\ filename' = f
            /\ records' = r.records
            /\ out' = r.out
            /\ pc' = "menu"
            /\ last' = [op |-> "__init__", index |-> 0, rec |-> NoRecord,
                        typed |-> <<>>, answer |-> <<>>, failAt |-> failAt,
                        file |-> f, ok |-> r.ok, pre |-> <<>>]
            /\ UNCHANGED <<fs, saved>>

(***************************************************************************)
(* Calls of the BusinessLayer's methods.                                   *)
(***************************************************************************)
LoadRecords ==
    /\ pc = "menu"
    /\ LET opened == open(fs[filename])
       IN  \E failAt \in FailPoints(opened) :
           LET r == load_records(records, opened, failAt)
           IN  /\ Len(r.records) <= MaxRecords
               /\ records' = r.records
               /\ out' = r.out
               /\ last' = Last("load_records", 0, NoRecord, <<>>, <<>>, failAt, filename, r.ok)
    /\ UNCHANGED <<filename, fs, pc, saved>>

SaveRecords ==
    /\ pc = "menu"
    /\ \E f \in SaveNames, failAt \in (-1)..(Len(records) + 1) :
           LET r == save_records(records, fs[f], failAt)
           IN  /\ fs' = [fs EXCEPT ![f] = r.file]
               /\ saved' = [saved EXCEPT ![f] =
                                IF r.ok THEN [known |-> TRUE, recs |-> records]
                                ELSE IF failAt = -1 THEN @ ELSE Unknown]
               /\ out' = r.out
               /\ last' = Last("save_records", 0, NoRecord, <<>>, <<>>, failAt, f, r.ok)
    /\ UNCHANGED <<records, filename, pc>>

DisplayRecord ==
    /\ pc = "menu"
    /\ \E index \in (-1)..Len(records) :
           LET r == display_record(records, index)
           IN  /\ records' = r.records
               /\ out' = r.out
               /\ last' = Last("display_record", index, NoRecord, <<>>, <<>>, 0, filename, TRUE)
    /\ UNCHANGED <<filename, fs, pc, saved>>

EditRecord ==
    /\ pc = "menu"
    /\ \E index \in (-1)..Len(records), new_record \in TypedRecords :
           LET r == edit_record(records, index, new_record)
           IN  /\ records' = r.records
               /\ out' = r.out
               /\ last' = Last("edit_record", index, new_record, <<>>, <<>>, 0, filename, TRUE)
    /\ UNCHANGED <<filename, fs, pc, saved>>

DeleteRecord ==
    /\ pc = "menu"
    /\ \E index \in (-1)..Len(records) :
           LET r == delete_record(records, index)
           IN  /\ records' = r.records
               /\ out' = r.out
               /\ last' = Last("delete_record", index, NoRecord, <<>>, <<>>, 0, filename, TRUE)
    /\ UNCHANGED <<filename, fs, pc, saved>>

(***************************************************************************)
(* PresentationLayer.select_display_edit_record and .delete_record.        *)
(* A ValueError of int() is caught nowhere: the process ends.              *)
(***************************************************************************)
yes == <<"y", "e", "s">>

ValueErrorLine(typed) ==
    << <<"ValueError: invalid literal for int() with base 10: ">> \o typed >>

\* A variant that edits whatever the answer is (sensitivity of C9).
select_display_edit_record_noask(recs, typed, answer, new_record) ==
    LET p == int(typed)
        index == p.val - 1
    IN  IF ~p.ok
        THEN [records |-> recs, out |-> ValueErrorLine(typed), crashed |-> TRUE]
        ELSE IF 0 <= index /\ index < Len(recs)
        THEN LET d == display_record(recs, index)
                 e == edit_record(d.records, index, new_record)
             IN  [records |-> e.records, out |-> d.out \o e.out, crashed |-> FALSE]
        ELSE [records |-> recs, out |-> <<InvalidIndexLine>>, crashed |-> FALSE]

select_display_edit_record(recs, typed, answer, new_record) ==
    LET p == int(typed)
        index == p.val - 1
    IN  IF ~p.ok
        THEN [records |-> recs, out |-> ValueErrorLine(typed), crashed |-> TRUE]
        ELSE IF 0 <= index /\ index < Len(recs)
        THEN LET d == display_record(recs, index)
             IN  IF lower(answer) = yes
                 THEN LET e == edit_record(d.records, index, new_record)
                      IN  [records |-> e.records, out |-> d.out \o e.out,
                           crashed |-> FALSE]
                 ELSE [records |-> d.records, out |-> d.out, crashed |-> FALSE]
        ELSE [records |-> recs, out |-> <<InvalidIndexLine>>, crashed |-> FALSE]

\* Whether select_display_edit_record reaches its "edit this record?" prompt.
AsksToEdit(recs, typed) ==
    int(typed).ok /\ 0 <= int(typed).val - 1 /\ int(typed).val - 1 < Len(recs)

PresentationLayer_delete_record(recs, typed) ==
    LET p == int(typed)
    IN  IF ~p.ok
        THEN [records |-> recs, out |-> ValueErrorLine(typed), crashed |-> TRUE]
        ELSE LET d == delete_record(recs, p.val - 1)
             IN  [records |-> d.records, out |-> d.out, crashed |-> FALSE]

(***************************************************************************)
(* PresentationLayer.start: one iteration of the loop per action, by the   *)
(* choice typed.                                                           *)
(***************************************************************************)
StartReload ==
    /\ pc = "menu"
    /\ LET opened == open(fs[filename])
       IN  \E failAt \in FailPoints(opened) :
           LET r == load_records(records, opened, failAt)
           IN  /\ Len(r.records) <= MaxRecords
               /\ records' = r.records
               /\ out' = Banner \o r.out
               /\ last' = Last("start:1", 0, NoRecord, <<>>, <<>>, failAt, filename, r.ok)
    /\ UNCHANGED <<filename, fs, pc, saved>>

StartDisplayAll ==
    /\ pc = "menu"
    /\ LET r == display_records(records)
       IN  /\ records' = r.records
           /\ out' = Banner \o r.out
           /\ last' = Last("start:2", 0, NoRecord, <<>>, <<>>, 0, filename, TRUE)
    /\ UNCHANGED <<filename, fs, pc, saved>>

StartAdd ==
    /\ pc = "menu"
    /\ Len(records) < MaxRecords
    /\ \E record \in TypedRecords :
           LET r == add_record(records, record)
           IN  /\ records' = r.records
               /\ out' = Banner \o r.out
               /\ last' = Last("start:3", 0, record, <<>>, <<>>, 0, filename, TRUE)
    /\ UNCHANGED <<filename, fs, pc, saved>>

StartSelect ==
    /\ pc = "menu"
    /\ \E typed \in IndexTexts :
         \E answer \in (IF AsksToEdit(records, typed) THEN Answers ELSE {<<>>}) :
           \E new_record \in (IF AsksToEdit(records, typed) /\ lower(answer) = yes
                              THEN TypedRecords ELSE {NoRecord}) :
             LET r == select_display_edit_record(records, typed, answer, new_record)
             IN  /\ records' = r.records
                 /\ out' = Banner \o r.out
                 /\ pc' = IF r.crashed THEN "crash" ELSE "menu"
                 /\ last' = Last("start:4", 0, new_record, typed, answer, 0, filename,
                                 ~r.crashed)
    /\ UNCHANGED <<filename, fs, saved>>

StartDelete ==
    /\ pc = "menu"
    /\ \E typed \in IndexTexts :
           LET r == PresentationLayer_delete_record(records, typed)
           IN  /\ records' = r.records
               /\ out' = Banner \o r.out
               /\ pc' = IF r.crashed THEN "crash" ELSE "menu"
               /\ last' = Last("start:5", 0, NoRecord, typed, <<>>, 0, filename, ~r.crashed)
    /\ UNCHANGED <<filename, fs, saved>>

StartChart ==
    /\ pc = "menu"
    /\ \E x_column \in Columns, plotFails \in BOOLEAN :
           LET r == generate_bar_chart(records, x_column, plotFails)
           IN  /\ records' = r.records
               /\ out' = Banner \o r.out
               /\ last' = Last("start:6", 0, NoRecord, x_column, <<>>,
                               IF plotFails THEN 1 ELSE 0, filename, r.out = <<>>)
    /\ UNCHANGED <<filename, fs, pc, saved>>

StartExit ==
    /\ pc = "menu"
    /\ pc' = "exit"
    /\ out' = Banner
    /\ last' = Last("start:7", 0, NoRecord, <<>>, <<>>, 0, filename, TRUE)
    /\ UNCHANGED <<records, filename, fs, saved>>

StartInvalid ==
    /\ pc = "menu"
    /\ \E choice \in OtherChoices :
           /\ out' = Banner \o << <<"Invalid choice. Please try again.">> >>
           /\ last' = Last("start:other", 0, NoRecord, choice, <<>>, 0, filename, TRUE)
    /\ UNCHANGED <<records, filename, fs, pc, saved>>

(***************************************************************************)
(* The program: the menu loop and direct calls of the repository.          *)
(***************************************************************************)
Next ==
    \/ DisplayRecord
    \/ EditRecord
    \/ DeleteRecord
    \/ StartReload
    \/ StartDisplayAll
    \/ StartAdd
    \/ StartSelect
    \/ StartDelete
    \/ StartChart
    \/ StartExit
    \/ StartInvalid

Spec == Init /\ [][Next]_vars

(***************************************************************************)
(* The repository and its files: add, save, load, and a new BusinessLayer  *)
(* built on a file that was written.                                       *)
(***************************************************************************)
\* The repository after the program was built on the dataset file and a
\* caller made some add_record calls.
InitIO ==
    \E file \in InitialFiles :
        \E added \in UNION {[1..k -> ApiRecords] : k \in 0..MaxRecords} :
            LET r == load_records(<<>>, open(file), 0)
                all == r.records \o added
            IN  /\ Len(all) <= MaxRecords
                /\ filename = dataset_filename
                /\ fs = [f \in FileNames |-> IF f = dataset_filename THEN file ELSE NoFile]
                /\ records = all
                /\ out = IF added = <<>> THEN r.out
                         ELSE add_record(<<>>, added[Len(added)]).out
                /\ pc = "menu"
                /\ last = IF added = <<>>
                          THEN [op |-> "__init__", index |-> 0, rec |-> NoRecord,
                                typed |-> <<>>, answer |-> <<>>, failAt |-> 0,
                                file |-> dataset_filename, ok |-> r.ok, pre |-> <<>>]
                          ELSE [op |-> "add_record", index |-> 0,
                                rec |-> added[Len(added)],
                                typed |-> <<>>, answer |-> <<>>, failAt |-> 0,
                                file |-> dataset_filename, ok |-> TRUE,
                                pre |-> SubSeq(all, 1, Len(all) - 1)]
                /\ saved = [f \in FileNames |-> Unknown]

NextIO ==
    \/ LoadRecords
    \/ SaveRecords
    \/ \E f \in FileNames : Construct(f)

SpecIO == InitIO /\ [][NextIO]_vars

(***************************************************************************)
(* Properties.                                                             *)
(***************************************************************************)
LoadOps == {"__init__", "load_records", "start:1"}

InRange(index, recs) == 0 <= index /\ index < Len(recs)

FileNotFoundReported ==
    out # <<>> /\ out[Len(out)] = <<"Error: File not found.">>

\* C1: display_record, edit_record and delete_record called with an index
\* that is negative or not below the length print the invalid-index line
\* only and leave the record sequence as it was.
C1_InvalidIndexLeavesSequence ==
    (/\ last.op \in {"display_record", "edit_record", "delete_record"}
     /\ ~InRange(last.index, last.pre))
        => (records = last.pre /\ out = <<InvalidIndexLine>>)

C1_Witness ==
    /\ last.op = "edit_record"
    /\ last.index = -1
    /\ Len(last.pre) = MaxRecords
    /\ last.rec # last.pre[Len(last.pre)]

\* C2: a load that succeeds (at construction or by menu option 1) leaves
\* exactly the records parsed from the file, nothing carried over.
C2_LoadReplacesSequence ==
    (last.op \in {"__init__", "start:1"} /\ last.ok)
        => records = load_records(<<>>, open(fs[filename]), 0).records

\* C3: a BusinessLayer built on a file that save_records wrote holds the
\* saved sequence, field by field as strings, same length and order.
FieldStrings(recs) ==
    [i \in 1..Len(recs) |-> [k \in 1..7 |-> Str(RecordFields(recs[i])[k])]]

C3_SaveLoadRoundTrip ==
    (last.op = "__init__" /\ last.ok /\ saved[filename].known)
        => FieldStrings(records) = FieldStrings(saved[filename].recs)

\* C4: no input makes the menu loop end with an unhandled error.
C4_LoopNeverCrashes == pc # "crash"

\* C5 as stated: a load from a missing file reports it, the process goes
\* on, and the sequence is left empty whatever it held before.
C5_MissingFileLeavesEmpty ==
    (last.op \in LoadOps /\ fs[last.file] = NoFile)
        => (records = <<>> /\ FileNotFoundReported /\ pc = "menu")

\* C5 amended: a load from a missing file reports it, the process goes on,
\* and the sequence is left as it was before the call (empty at
\* construction, where it starts empty).
C5_MissingFileLeavesUnchanged ==
    (last.op \in LoadOps /\ fs[last.file] = NoFile)
        => /\ records = last.pre
           /\ last.op = "__init__" => records = <<>>
           /\ FileNotFoundReported
           /\ pc = "menu"

C5_Witness ==
    /\ last.op = "start:1"
    /\ fs[last.file] = NoFile
    /\ last.pre # <<>>

\* C6 as stated: after a failing load or save the sequence equals the one
\* held before the call.
C6_FailurePreservesSequence ==
    (last.op \in LoadOps \cup {"save_records"} /\ ~last.ok) => records = last.pre

\* C6 amended: a failing load or save is reported and the process goes on;
\* a failing save, and a load that fails before a row was read, leave the
\* sequence as it was; a load that fails after k rows were read leaves the
\* prior sequence followed by the records of those k rows.
C6_FailureKeepsPriorRecords ==
    (last.op \in LoadOps \cup {"save_records"} /\ ~last.ok)
        => /\ pc = "menu"
           /\ out # <<>>
           /\ Len(records) >= Len(last.pre)
           /\ SubSeq(records, 1, Len(last.pre)) = last.pre
           /\ last.op = "save_records" => records = last.pre
           /\ last.op \in LoadOps =>
                 LET k == Len(records) - Len(last.pre)
                     rows == open(fs[last.file]).dr.rows
                     names == open(fs[last.file]).dr.fieldnames
                 IN  /\ k <= Len(rows)
                     /\ \A j \in 1..k :
                            records[Len(last.pre) + j] = RowRecord(names, rows[j])
                     /\ (\/ fs[last.file] = NoFile
                         \/ last.failAt = 1
                         \/ MissingKeys(names) # {}) => k = 0
                     /\ (last.failAt > 1 /\ MissingKeys(names) = {})
                            => k = last.failAt - 1

C6_Witness ==
    /\ last.op = "load_records"
    /\ ~last.ok
    /\ last.pre # <<>>
    /\ Len(records) > Len(last.pre)

C8_AddAppendsThenDisplays ==
    /\ [](last.op = "start:3" =>
              /\ Len(records) = Len(last.pre) + 1
              /\ \A j \in 1..Len(last.pre) : records[j] = last.pre[j]
              /\ records[Len(records)] = last.rec
              /\ out[Len(out)] = <<"Record added successfully.">>)
    /\ [][(/\ last.op = "start:3"
           /\ last'.op = "display_record"
           /\ last'.index = Len(records) - 1)
              => (out' = <<format_record(last.rec)>> /\ records' = records)]_vars

C8_Witness ==
    /\ last.op = "start:3"
    /\ last.rec = SampleRecord
    /\ Len(last.pre) = MaxRecords - 1
    /\ last.pre[1] # SampleRecord

\* C9: edit_record with a valid index puts the new record at that index and
\* changes nothing else; menu option 4 does so only when the number typed,
\* less one, is a valid index and the answer is "yes" in any letter case,
\* and otherwise leaves the sequence as it was.
Replaced(pre, post, index, record) ==
    /\ Len(post) = Len(pre)
    /\ post[index + 1] = record
    /\ \A j \in 1..Len(pre) : j # index + 1 => post[j] = pre[j]

\* The numbers the index texts of the model stand for.
TypedNumber(typed) ==
    CASE typed = <<"1">> -> 1
      [] typed = <<"+", "2">> -> 2
      [] typed = <<" ", "3", " ">> -> 3
      [] typed = <<"0">> -> 0
      [] typed = <<"-", "1">> -> -1
      [] typed = <<"1", "0">> -> 10

IsNumber(typed) == typed \notin { <<"a">>, <<>> }

SaysYes(answer) == answer \in { <<"y", "e", "s">>, <<"Y", "E", "S">> }

C9_EditReplacesOnlyIndex ==
    /\ (last.op = "edit_record" /\ InRange(last.index, last.pre))
           => Replaced(last.pre, records, last.index, last.rec)
    /\ last.op = "start:4"
           => IF /\ IsNumber(last.typed)
                 /\ InRange(TypedNumber(last.typed) - 1, last.pre)
                 /\ SaysYes(last.answer)
              THEN Replaced(last.pre, records, TypedNumber(last.typed) - 1, last.rec)
              ELSE records = last.pre

C9_Witness ==
    /\ last.op = "start:4"
    /\ last.typed = <<"+", "2">>
    /\ last.answer = <<"Y", "E", "S">>
    /\ records # last.pre

\* C10: format_record gives the seven fields, in the order source, latin
\* name, english name, french name, year, month, number of otoliths, each
\* after its label, as raw strings; the record is not changed.
ExpectedSampleOutput ==
    <<"Source: ", "Source", ", Latin Name: ", "Latin Name", ", English Name: ",
      "English Name", ", French Name: ", "French Name", ", Year: ", "2024",
      ", Month: ", "March", ", Number of Otoliths: ", "24">>

Layout(record) ==
    Str(record.source) \o Str(record.latin_name) \o Str(record.english_name)
        \o Str(record.french_name) \o Str(record.year) \o Str(record.month)
        \o Str(record.number_otoliths)

Labels ==
    {"Source: ", ", Latin Name: ", ", English Name: ", ", French Name: ", ", Year: ",
     ", Month: ", ", Number of Otoliths: "}

C10_DefaultFormatLayout ==
    /\ format_record(SampleRecord) = ExpectedSampleOutput
    /\ (last.op = "display_record" /\ InRange(last.index, last.pre))
           => /\ records = last.pre
              /\ Len(out) = 1
              /\ out[1][1] = "Source: "
              /\ SelectSeq(out[1], LAMBDA c : c \notin Labels)
                     = Layout(last.pre[last.index + 1])
              /\ Len(SelectSeq(out[1], LAMBDA c : c \in Labels)) = 7

C10_Witness ==
    /\ last.op = "display_record"
    /\ InRange(last.index, last.pre)
    /\ last.pre[last.index + 1] = SampleRecord
    /\ last.index = 1

====
